---- MODULE Spec2Model ----
(***************************************************************************)
(* Model of the Reefnet Sensus Ultra dive parser                           *)
(* (src/src/reefnet_sensusultra_parser.c).                                 *)
(*                                                                         *)
(* One parser object is modelled.  Every operation of the parser runs to   *)
(* completion on the caller's thread, so every operation is one action;    *)
(* its loops are recursive operators that follow the C loops step by step. *)
(*                                                                         *)
(* Numbers.  TLC integers are 32 bit signed, so                            *)
(*   - a C `unsigned int` that can need all 32 bits (devtime, timestamp)   *)
(*     and the 64 bit dc_ticks_t are pairs <<hi, lo>> of 16 bit limbs,     *)
(*     value = hi * 65536 + lo with lo in 0..65535;                        *)
(*   - a C `double` result is the exact rational value of the expression,  *)
(*     in the canonical form <<"double", q, r, d>> = q + r/d with          *)
(*     0 <= r < d and r/d in lowest terms (floating point rounding is not  *)
(*     modelled).                                                          *)
(***************************************************************************)
EXTENDS Integers, Sequences, FiniteSets, TLC

VARIABLES
    data,         \* abstract->data / abstract->size: the installed buffer
    atmospheric,  \* parser->atmospheric (an integer number of pascal)
    hydrostatic,  \* parser->hydrostatic, a rational <<n, d>>
    devtime,      \* parser->devtime, a 32 bit value <<hi, lo>>
    systime,      \* parser->systime, a 64 bit value <<hi, lo>>
    cached,       \* parser->cached
    divetime,     \* parser->divetime
    maxdepth,     \* parser->maxdepth
    last,         \* the last operation: its arguments and what the caller saw
    mark,         \* history: one remembered get_field call since the last set_data
    smark,        \* history: one remembered samples_foreach call since then
    reads,        \* the byte offsets the last operation read from the buffer
    scans,        \* how often the scan loop of get_field ran since the last set_data
    loop          \* the position of a loop that is followed step by step

vars == <<data, atmospheric, hydrostatic, devtime, systime,
          cached, divetime, maxdepth, last, mark, smark, reads, scans, loop>>

(***************************************************************************)
(* Bounds of the model.                                                    *)
(***************************************************************************)
\* Largest number of 4-byte words in a buffer handed to samples_foreach.
MaxWords == 7
\* Largest number of 4-byte sample units after the 16 byte header in a
\* buffer handed to the aggregate scan of get_field.
MaxUnits == 3
\* The count of scan loop runs stops at this number.
MaxScans == 3
\* Largest number of 4-byte words in a buffer whose reads are followed.
MaxReadWords == 5
\* Largest number of 4-byte words in a buffer whose loops are followed step
\* by step.
MaxStepWords == 6

(***************************************************************************)
(* Program constants.                                                      *)
(***************************************************************************)
\* units.h: #define BAR 100000.0
BAR == 100000
\* units.h: #define ATM 101325.0
ATM == 101325
\* 1025.0 * GRAVITY = 1025 * 9.80665 = 10051.81625 = 8041453 / 800
DefaultHydrostatic == <<8041453, 800>>
\* the length get_datetime needs (4 + 4)
SZ_DATETIME == 8
\* the length get_field needs
SZ_FIELD == 20
\* the length of the record header
SZ_HEADER == 16
\* sizeof (header), sizeof (footer)
SZ_MARKER == 4

DC_STATUS_SUCCESS     == "DC_STATUS_SUCCESS"
DC_STATUS_UNSUPPORTED == "DC_STATUS_UNSUPPORTED"
DC_STATUS_DATAFORMAT  == "DC_STATUS_DATAFORMAT"

FIELD_TYPE_DIVETIME     == "FIELD_TYPE_DIVETIME"
FIELD_TYPE_MAXDEPTH     == "FIELD_TYPE_MAXDEPTH"
FIELD_TYPE_GASMIX_COUNT == "FIELD_TYPE_GASMIX_COUNT"
\* a field kind the parser has no case for
FIELD_TYPE_GASMIX       == "FIELD_TYPE_GASMIX"
FieldTypes == {FIELD_TYPE_DIVETIME, FIELD_TYPE_MAXDEPTH,
               FIELD_TYPE_GASMIX_COUNT, FIELD_TYPE_GASMIX}

SAMPLE_TYPE_TIME        == "SAMPLE_TYPE_TIME"
SAMPLE_TYPE_TEMPERATURE == "SAMPLE_TYPE_TEMPERATURE"
SAMPLE_TYPE_DEPTH       == "SAMPLE_TYPE_DEPTH"

(***************************************************************************)
(* Bytes and little-endian fields.                                         *)
(***************************************************************************)
size == Len(data)

\* data[i] of C (0-based).  A read at or beyond the end of the buffer has no
\* defined value: -1 stands for it, and the offset shows in `reads`.
Byte(d, i) == IF i < Len(d) THEN d[i + 1] ELSE -1

\* array_uint16_le (d + off)
array_uint16_le(d, off) == Byte(d, off) + 256 * Byte(d, off + 1)

\* array_uint32_le (d + off), as <<hi, lo>>
array_uint32_le(d, off) ==
    <<array_uint16_le(d, off + 2), array_uint16_le(d, off)>>

\* memcmp (d + off, marker, sizeof (marker)) == 0 for a marker of 4 bytes b
MatchesMarker(d, off, b) ==
    \A k \in 0..(SZ_MARKER - 1) : Byte(d, off + k) = b

\* lines 189, 242, 251: offset + sizeof (marker) <= size
Remaining(d, offset) == offset + SZ_MARKER <= Len(d)

\* the offsets memcmp (data + offset, marker, 4) and the decoding of the
\* 4-byte unit at `offset` read
MarkerReads(offset) == offset..(offset + SZ_MARKER - 1)

\* a header comparison that looks at three bytes only
IsHeaderThreeBytes(d, off) == \A k \in 0..2 : Byte(d, off + k) = 0

\* memcmp (data + offset, header, sizeof (header)) == 0
IsHeader(d, off) == MatchesMarker(d, off, 0)

\* memcmp (data + offset, footer, sizeof (footer)) == 0
IsFooter(d, off) == MatchesMarker(d, off, 255)

(***************************************************************************)
(* 32 and 64 bit arithmetic on <<hi, lo>> limbs.                           *)
(***************************************************************************)
Limb == 256 * 256

\* a - b on C unsigned int: modulo 2^32
U32Sub(a, b) ==
    LET lo     == a[2] - b[2]
        borrow == IF lo < 0 THEN 1 ELSE 0
    IN  <<(a[1] - b[1] - borrow) % Limb, lo % Limb>>

\* a - b on dc_ticks_t (64 bit signed; no overflow at the modelled sizes)
I64Sub(a, b) ==
    LET lo     == a[2] - b[2]
        borrow == IF lo < 0 THEN 1 ELSE 0
    IN  <<a[1] - b[1] - borrow, lo % Limb>>

(***************************************************************************)
(* Exact values of the double expressions.                                 *)
(***************************************************************************)
RECURSIVE GCD(_, _)
GCD(a, b) == IF b = 0 THEN a ELSE GCD(b, a % b)

\* x * m / d for d > 0, m >= 0 as <<q, r>> with x * m = q * d + r, 0 <= r < d,
\* by doubling, so that no intermediate value leaves 32 bits
RECURSIVE MulDiv(_, _, _)
MulDiv(x, m, d) ==
    IF m = 0 THEN <<0, 0>>
    ELSE LET h == MulDiv(x, m \div 2, d)
             t == 2 * h[2] + (IF m % 2 = 1 THEN x ELSE 0)
         IN  <<2 * h[1] + (t \div d), t % d>>

\* the double x * m / d, in canonical form
Double(x, m, d) ==
    LET qr == MulDiv(x, m, d)
        g  == GCD(d, qr[2])
    IN  <<"double", qr[1], qr[2] \div g, d \div g>>

\* (depth * BAR / 1000.0 - atmospheric) / hydrostatic
DepthValue(depth, atm, hyd) ==
    LET x == depth * (BAR \div 1000) - atm
    IN  IF hyd[1] > 0 THEN Double(x, hyd[2], hyd[1])
                      ELSE Double(-x, hyd[2], -hyd[1])

\* temperature / 100.0 - 273.15
TemperatureValue(temperature) == Double(temperature - 27315, 1, 100)

(***************************************************************************)
(* get_field: the memoized aggregate scan (lines 169-224).                 *)
(***************************************************************************)
\* the three cached fields of the parser object (lines 42-45)
Cache == [cached |-> cached, divetime |-> divetime, maxdepth |-> maxdepth]

\* a set_data that leaves the cache as it is
ResetCacheKept == Cache

\* set_data, "Reset the cache" (lines 126-129)
ResetCache == [cached |-> 0, divetime |-> 0, maxdepth |-> 0]

\* a length check that covers the 16 byte header only
FieldTooShortHeaderOnly(sz) == sz < SZ_HEADER

\* line 174: if (abstract->size < 20) return DC_STATUS_DATAFORMAT
FieldTooShort(sz) == sz < SZ_FIELD

\* a scan that is skipped for the field that needs none
ScanRequiredUnlessGasmix(type) == cached = 0 /\ type # FIELD_TYPE_GASMIX_COUNT

\* line 177: if (!parser->cached), tested before the field type is looked at
ScanRequired(type) == cached = 0

\* a strict comparison with the threshold
QualifiesStrictly(depth, threshold) == depth > threshold

\* line 193: if (depth >= threshold)
Qualifies(depth, threshold) == depth >= threshold

\* the while loop of lines 189-200, from `offset` on
RECURSIVE ScanLoop(_, _, _, _, _)
ScanLoop(d, threshold, offset, maxd, nsamples) ==
    IF Remaining(d, offset) /\ ~IsFooter(d, offset)
    THEN LET depth == array_uint16_le(d, offset + 2)
             q     == Qualifies(depth, threshold)
         IN  ScanLoop(d, threshold, offset + 4,
                      IF q /\ depth > maxd THEN depth ELSE maxd,
                      IF q THEN nsamples + 1 ELSE nsamples)
    ELSE [maxdepth |-> maxd, nsamples |-> nsamples]

\* a scan that starts one unit after the header
ScanSkipsFirstUnit(d) ==
    LET interval  == array_uint16_le(d, 8)
        threshold == array_uint16_le(d, 10)
        r         == ScanLoop(d, threshold, SZ_FIELD, 0, 0)
    IN  [cached |-> 1, divetime |-> r.nsamples * interval, maxdepth |-> r.maxdepth]

\* a scan that stops after the first unit and stores what it has so far
ScanPartial(d) ==
    LET interval  == array_uint16_le(d, 8)
        threshold == array_uint16_le(d, 10)
        r         == ScanLoop(SubSeq(d, 1, SZ_FIELD), threshold, SZ_HEADER, 0, 0)
    IN  [cached |-> 1, divetime |-> r.nsamples * interval, maxdepth |-> r.maxdepth]

\* a scan that stores its results without marking the cache valid
ScanNotMarked(d) ==
    LET interval  == array_uint16_le(d, 8)
        threshold == array_uint16_le(d, 10)
        r         == ScanLoop(d, threshold, SZ_HEADER, 0, 0)
    IN  [cached |-> 0, divetime |-> r.nsamples * interval, maxdepth |-> r.maxdepth]

\* lines 183-204: the scan and what it stores in the parser object
Scan(d) ==
    LET interval  == array_uint16_le(d, 8)
        threshold == array_uint16_le(d, 10)
        r         == ScanLoop(d, threshold, SZ_HEADER, 0, 0)
    IN  [cached |-> 1, divetime |-> r.nsamples * interval, maxdepth |-> r.maxdepth]

\* a value taken from the parser's fields as they were when the call began
FieldValueBeforeScan(type, c) ==
    CASE type = FIELD_TYPE_DIVETIME     -> <<"uint", divetime>>
      [] type = FIELD_TYPE_MAXDEPTH     -> DepthValue(maxdepth, atmospheric, hydrostatic)
      [] type = FIELD_TYPE_GASMIX_COUNT -> <<"uint", 0>>
      [] OTHER                          -> <<>>

\* lines 208-220: the value written through a non-null `value`, as a sequence
\* (empty: nothing is written); c is the parser's cache at that point
FieldValue(type, c) ==
    CASE type = FIELD_TYPE_DIVETIME     -> <<"uint", c.divetime>>
      [] type = FIELD_TYPE_MAXDEPTH     -> DepthValue(c.maxdepth, atmospheric, hydrostatic)
      [] type = FIELD_TYPE_GASMIX_COUNT -> <<"uint", 0>>
      [] OTHER                          -> <<>>

\* lines 207-223: the status; hasvalue is `value != NULL`
FieldStatus(type, hasvalue) ==
    IF hasvalue /\ type \notin {FIELD_TYPE_DIVETIME, FIELD_TYPE_MAXDEPTH,
                                FIELD_TYPE_GASMIX_COUNT}
    THEN DC_STATUS_UNSUPPORTED
    ELSE DC_STATUS_SUCCESS

(***************************************************************************)
(* samples_foreach (lines 227-280).                                        *)
(***************************************************************************)
\* a time that is emitted without the interval added
SampleTimeNotAdvanced(time, interval) == time

\* line 257: time += interval, before the TIME callback
SampleTime(time, interval) == time + interval

\* lines 254-269: the three callbacks of the unit at `offset`
SampleEvents(d, offset, time) ==
    << <<SAMPLE_TYPE_TIME, time>>,
       <<SAMPLE_TYPE_TEMPERATURE, TemperatureValue(array_uint16_le(d, offset))>>,
       <<SAMPLE_TYPE_DEPTH,
         DepthValue(array_uint16_le(d, offset + 2), atmospheric, hydrostatic)>> >>

\* the inner while loop of lines 251-272
RECURSIVE SampleLoop(_, _, _, _, _)
SampleLoop(d, offset, time, interval, cbs) ==
    IF Remaining(d, offset) /\ ~IsFooter(d, offset)
    THEN LET t == SampleTime(time, interval)
         IN  SampleLoop(d, offset + 4, t, interval, cbs \o SampleEvents(d, offset, t))
    ELSE cbs

\* a header search that does not advance
SeekStepStuck(offset) == offset

\* a header search that steps by whole words
SeekStepAligned(offset) == offset + 4

\* line 275: offset++
SeekStep(offset) == offset + 1

\* a header check that covers the bytes up to the interval and threshold only
HeaderTruncatedBeforeReserved(d, offset) == offset + 12 > Len(d)

\* line 244: if (offset + 16 > size)
HeaderTruncated(d, offset) == offset + SZ_HEADER > Len(d)

\* a running time that starts from the parser's cached dive time
TimeStartFromCache == divetime

\* line 247: unsigned int time = 0
TimeStart == 0

\* lines 244-273: the record whose header starts at `offset`
Record(d, offset) ==
    IF HeaderTruncated(d, offset)
    THEN [status |-> DC_STATUS_DATAFORMAT, cbs |-> <<>>]
    ELSE [status |-> DC_STATUS_SUCCESS,
          cbs    |-> SampleLoop(d, offset + SZ_HEADER, TimeStart,
                                array_uint16_le(d, offset + 8), <<>>)]

\* the outer while loop of lines 241-279, from `offset` on
RECURSIVE SeekHeader(_, _)
SeekHeader(d, offset) ==
    IF Remaining(d, offset)
    THEN IF IsHeader(d, offset)
         THEN Record(d, offset)
         ELSE SeekHeader(d, SeekStep(offset))
    ELSE [status |-> DC_STATUS_SUCCESS, cbs |-> <<>>]

\* `if (callback) callback (...)`: a null callback receives nothing
Callbacks(callback, events) == IF callback THEN events ELSE <<>>

(***************************************************************************)
(* The bytes the operations read.                                          *)
(***************************************************************************)
\* the loops of lines 189-200 and 251-272 from `offset` on: each test of the
\* loop condition compares the 4 bytes at offset with the footer, once the
\* length test has passed, and the body decodes fields of those 4 bytes
RECURSIVE UnitLoopReads(_, _)
UnitLoopReads(d, offset) ==
    IF Remaining(d, offset)
    THEN MarkerReads(offset)
         \cup (IF IsFooter(d, offset) THEN {} ELSE UnitLoopReads(d, offset + 4))
    ELSE {}

\* get_field (lines 174-200): nothing on a short buffer or a valid cache, else
\* the interval and threshold at 8..11 and the units from 16 on
FieldReads(type) ==
    IF FieldTooShort(size) THEN {}
    ELSE IF ScanRequired(type)
         THEN (8..11) \cup UnitLoopReads(data, SZ_HEADER)
         ELSE {}

\* samples_foreach (lines 241-277) from `offset` on: the header comparisons,
\* then the interval at +8 and the units from +16 on
RECURSIVE SeekReads(_, _)
SeekReads(d, offset) ==
    IF Remaining(d, offset)
    THEN MarkerReads(offset)
         \cup (IF IsHeader(d, offset)
               THEN IF HeaderTruncated(d, offset) THEN {}
                    ELSE {offset + 8, offset + 9}
                         \cup UnitLoopReads(d, offset + SZ_HEADER)
               ELSE SeekReads(d, SeekStep(offset)))
    ELSE {}

(***************************************************************************)
(* get_datetime (lines 150-166).                                           *)
(***************************************************************************)
\* a length check that covers the bytes before the timestamp only
DatetimeTooShortTimestampOnly(sz) == sz < 4

\* line 155: if (abstract->size < 4 + 4) return DC_STATUS_DATAFORMAT
DatetimeTooShort(sz) == sz < SZ_DATETIME

\* get_datetime (lines 155-158): nothing on a short buffer, else bytes 4..7
DatetimeReads == IF DatetimeTooShort(size) THEN {} ELSE 4..7

\* lines 158-160: timestamp and ticks.  devtime - timestamp is an unsigned int
\* subtraction; its 32 bit result is widened to dc_ticks_t for the outer one.
Ticks(d) == I64Sub(systime, U32Sub(devtime, array_uint32_le(d, 4)))

\* dc_datetime_localtime (datetime, ticks) != 0: the outcomes the platform's
\* localtime can give.  Times from 1970 on convert; a time before 1970 converts
\* on some C libraries and is refused by others.
dc_datetime_localtime(ticks) == IF ticks[1] >= 0 THEN {TRUE} ELSE {TRUE, FALSE}

(***************************************************************************)
(* Inputs: the buffers, calibrations and clock pairs the callers supply.   *)
(***************************************************************************)
\* 4-byte words: the two markers and three data words whose 16 bit fields
\* have different low and high bytes
WZ == <<0, 0, 0, 0>>
WF == <<255, 255, 255, 255>>
WA == <<2, 0, 0, 1>>        \* LE16 fields 2 and 256
WD == <<0, 1, 2, 1>>        \* LE16 fields 256 and 258
WE == <<1, 0, 0, 0>>        \* LE16 fields 1 and 0; three zero bytes

\* the byte sequences made of at most n words of W
RECURSIVE Concats(_, _)
Concats(W, n) ==
    IF n = 0 THEN {<<>>}
    ELSE LET S == Concats(W, n - 1) IN S \cup {s \o w : s \in S, w \in W}

\* buffers for samples_foreach: any words, then 0, 1 or 3 more bytes
SamplePool ==
    {s \o t : s \in Concats({WZ, WF, WE}, MaxWords),
              t \in {<<>>, <<0>>, <<0, 0, 0>>}}

\* buffers of every length up to 4 * MaxReadWords + 3: any words, then 0 to 3
\* more bytes
ReadPool ==
    {s \o t : s \in Concats({WZ, WF, WE}, MaxReadWords),
              t \in {<<>>, <<0>>, <<255, 255>>, <<0, 0, 0>>}}

\* buffers for the loops followed step by step: any words, then 0 or 3 more
\* bytes
StepPool ==
    {s \o t : s \in Concats({WZ, WF, WE}, MaxStepWords), t \in {<<>>, <<0, 0, 0>>}}

\* a 16 byte header whose interval/threshold word is w
Header(w) == WE \o WA \o w \o WD

\* buffers for the aggregate scan: a header, units, then 0 or 3 more bytes
ScanPool ==
    {Header(w) \o u \o t : w \in {WZ, WF, WA, WD},
                           u \in Concats({WZ, WF, WA, WD}, MaxUnits),
                           t \in {<<>>, <<255, 255, 255>>}}

\* buffers that begin with the zero sentinel of a record: 16 header bytes
\* with interval 2 and threshold 256, units with depths below, at and above
\* the threshold, then 0 or 3 more bytes
AgreePool ==
    {WZ \o WA \o WA \o WD \o u \o t : u \in Concats({WZ, WF, WA, WD}, MaxUnits),
                                       t \in {<<>>, <<255, 255, 255>>}}

\* a record header with its zero sentinel, timestamp 900, and word w
RecordHeader(w) == WZ \o <<132, 3, 0, 0>> \o w \o WZ

\* buffers for the life cycle of one parser: too short for get_datetime, too
\* short for get_field, and records with different statistics
LifePool ==
    { <<>>,
      WZ \o <<0, 0, 0>>,
      WZ \o <<132, 3, 0, 0>>,
      SubSeq(RecordHeader(WA) \o WA, 1, 19),
      RecordHeader(WA) \o WA,
      RecordHeader(WD) \o WA \o WD \o WD,
      RecordHeader(WA) \o WD \o WF \o RecordHeader(WD) \o WD,
      WE \o RecordHeader(WZ) \o WA \o <<7>> }

\* a smaller set for the history of get_field calls
IdemPool ==
    { WZ \o <<132, 3, 0, 0>>,
      RecordHeader(WA) \o WA,
      RecordHeader(WD) \o WA \o WD \o WD }

\* the same, and a record whose header is cut off after 12 bytes
RestartPool == IdemPool \cup {SubSeq(RecordHeader(WA), 1, 12)}

\* (atmospheric, hydrostatic): the defaults of create and two settings
Calibrations ==
    { <<ATM, DefaultHydrostatic>>, <<0, <<1, 1>>>>, <<100000, <<10000, 1>>>> }

\* 32 bit values as <<hi, lo>>: 0, 900, 1000, 1001, 65536, 2^32 - 1
T0     == <<0, 0>>
T900   == <<0, 900>>
T1000  == <<0, 1000>>
T1001  == <<0, 1001>>
T65536 == <<1, 0>>
TMAX   == <<65535, 65535>>

\* the bytes 4..7 that hold t
TimestampBytes(t) ==
    <<t[2] % 256, t[2] \div 256, t[1] % 256, t[1] \div 256>>

\* buffers for get_datetime: 0 to 7 bytes, and 8 bytes with a timestamp
ClockPool ==
    {SubSeq(WE \o WA, 1, n) : n \in 0..7}
    \cup {WE \o TimestampBytes(t) : t \in {T0, T900, T1000, T1001, T65536, TMAX}}

DevTimes == {T0, T1000, T65536, TMAX}
SysTimes == {<<0, 50000>>, <<0, 0>>, <<25000, 7>>}

(***************************************************************************)
(* State.                                                                  *)
(***************************************************************************)
\* what the caller saw of an operation
Seen(op, type, hasvalue, status, value, cbs, ticks, pre) ==
    [op |-> op, type |-> type, hasvalue |-> hasvalue, status |-> status,
     value |-> value, cbs |-> cbs, ticks |-> ticks, pre |-> pre]

\* no loop is being followed step by step
Idle == [pc |-> "idle", op |-> "", offset |-> 0, units |-> 0]

\* reefnet_sensusultra_parser_create (out, dev, sys) followed, when d is not
\* empty, by the first set_data (d)
Created(d, dev, sys) ==
    /\ data = d
    /\ atmospheric = ATM
    /\ hydrostatic = DefaultHydrostatic
    /\ devtime = dev
    /\ systime = sys
    /\ cached = 0
    /\ divetime = 0
    /\ maxdepth = 0
    /\ last = Seen("create", "", FALSE, DC_STATUS_SUCCESS, <<>>, <<>>, <<>>,
                   ResetCache)
    /\ mark = <<>>
    /\ smark = <<>>
    /\ reads = {}
    /\ scans = 0
    /\ loop = Idle

Init == Created(<<>>, T1000, <<0, 50000>>)

InitSamples == \E d \in SamplePool : Created(d, T1000, <<0, 50000>>)

InitScan == \E d \in ScanPool : Created(d, T1000, <<0, 50000>>)

InitReads == \E d \in ReadPool : Created(d, T1000, <<0, 50000>>)

InitSteps == \E d \in StepPool : Created(d, T1000, <<0, 50000>>)

InitAgree == \E d \in AgreePool : Created(d, T1000, <<0, 50000>>)

InitClock ==
    \E d \in ClockPool, dev \in DevTimes, sys \in SysTimes : Created(d, dev, sys)

(***************************************************************************)
(* Operations.                                                             *)
(***************************************************************************)
\* parser_set_data (parser, d, size) of the base class: it installs the view
\* (data, size) and then calls the backend's set_data
InstallView(d) == data' = d

\* a set_data that also puts the calibration back to the defaults of create
SetDataResetsCalibration(pool) ==
    \E d \in pool :
        /\ InstallView(d)
        /\ cached' = ResetCache.cached
        /\ divetime' = ResetCache.divetime
        /\ maxdepth' = ResetCache.maxdepth
        /\ atmospheric' = ATM
        /\ hydrostatic' = DefaultHydrostatic
        /\ last' = Seen("set_data", "", FALSE, DC_STATUS_SUCCESS, <<>>, <<>>,
                        <<>>, Cache)
        /\ mark' = <<>>
        /\ smark' = <<>>
        /\ reads' = {}
        /\ scans' = 0
        /\ UNCHANGED <<devtime, systime, loop>>

\* set_data: the view is installed, and the backend's set_data
\* (lines 118-132) resets the cache
SetData(pool) ==
    \E d \in pool :
        /\ InstallView(d)
        /\ cached' = ResetCache.cached
        /\ divetime' = ResetCache.divetime
        /\ maxdepth' = ResetCache.maxdepth
        /\ last' = Seen("set_data", "", FALSE, DC_STATUS_SUCCESS, <<>>, <<>>,
                        <<>>, Cache)
        /\ mark' = <<>>
        /\ smark' = <<>>
        /\ reads' = {}
        /\ scans' = 0
        /\ UNCHANGED <<atmospheric, hydrostatic, devtime, systime, loop>>

\* a set_calibration that also resets the cache
SetCalibrationInvalidates ==
    \E c \in Calibrations :
        /\ atmospheric' = c[1]
        /\ hydrostatic' = c[2]
        /\ cached' = ResetCache.cached
        /\ divetime' = ResetCache.divetime
        /\ maxdepth' = ResetCache.maxdepth
        /\ last' = Seen("set_calibration", "", FALSE, DC_STATUS_SUCCESS, <<>>,
                        <<>>, <<>>, Cache)
        /\ reads' = {}
        /\ UNCHANGED <<data, devtime, systime, mark, smark, scans, loop>>

\* reefnet_sensusultra_parser_set_calibration (lines 135-147)
SetCalibration ==
    \E c \in Calibrations :
        /\ atmospheric' = c[1]
        /\ hydrostatic' = c[2]
        /\ last' = Seen("set_calibration", "", FALSE, DC_STATUS_SUCCESS, <<>>,
                        <<>>, <<>>, Cache)
        /\ reads' = {}
        /\ UNCHANGED <<data, devtime, systime, cached, divetime, maxdepth, mark,
                       smark, scans, loop>>

\* reefnet_sensusultra_parser_get_datetime (lines 150-166)
GetDatetime ==
    /\ IF DatetimeTooShort(size)
       THEN last' = Seen("get_datetime", "", TRUE, DC_STATUS_DATAFORMAT, <<>>,
                         <<>>, <<>>, Cache)
       ELSE \E ok \in dc_datetime_localtime(Ticks(data)) :
                last' = Seen("get_datetime", "", TRUE,
                             IF ok THEN DC_STATUS_SUCCESS ELSE DC_STATUS_DATAFORMAT,
                             <<>>, <<>>, Ticks(data), Cache)
    /\ reads' = DatetimeReads
    /\ UNCHANGED <<data, atmospheric, hydrostatic, devtime, systime,
                   cached, divetime, maxdepth, mark, smark, scans, loop>>

\* what one get_field (type, flags, value) call does: the cache after it, the
\* status, the value written and whether the scan loop ran (lines 169-224)
FieldCall(type, hasvalue) ==
    IF FieldTooShort(size)
    THEN [cache |-> Cache, status |-> DC_STATUS_DATAFORMAT, value |-> <<>>,
          scanned |-> FALSE]
    ELSE LET c == IF ScanRequired(type) THEN Scan(data) ELSE Cache
         IN  [cache   |-> c,
              status  |-> FieldStatus(type, hasvalue),
              value   |-> IF hasvalue THEN FieldValue(type, c) ELSE <<>>,
              scanned |-> ScanRequired(type)]

\* reefnet_sensusultra_parser_get_field; a call in `marks` is also remembered
\* in the history variable, when no call is remembered yet
GetField(marks) ==
    \E type \in FieldTypes, hasvalue \in BOOLEAN, m \in marks :
        LET r == FieldCall(type, hasvalue)
        IN  /\ cached' = r.cache.cached
            /\ divetime' = r.cache.divetime
            /\ maxdepth' = r.cache.maxdepth
            /\ last' = Seen("get_field", type, hasvalue, r.status, r.value,
                            <<>>, <<>>, Cache)
            /\ mark' = IF m /\ mark = <<>>
                       THEN <<[type |-> type, hasvalue |-> hasvalue,
                               status |-> r.status, value |-> r.value,
                               atmospheric |-> atmospheric,
                               hydrostatic |-> hydrostatic]>>
                       ELSE mark
            /\ reads' = FieldReads(type)
            /\ scans' = IF r.scanned /\ scans < MaxScans THEN scans + 1 ELSE scans
            /\ UNCHANGED <<data, atmospheric, hydrostatic, devtime, systime,
                           smark, loop>>

\* reefnet_sensusultra_parser_samples_foreach (lines 227-280); callback is
\* `callback != NULL`; a call in `marks` is also remembered in the history
\* variable, when no call is remembered yet
SamplesForeachCall(marks) ==
    \E callback \in BOOLEAN, m \in marks :
        LET r == SeekHeader(data, 0)
        IN  /\ last' = Seen("samples_foreach", "", callback, r.status, <<>>,
                            Callbacks(callback, r.cbs), <<>>, Cache)
            /\ smark' = IF m /\ smark = <<>>
                        THEN <<[callback |-> callback, status |-> r.status,
                                cbs |-> Callbacks(callback, r.cbs),
                                pre |-> Cache,
                                reads |-> SeekReads(data, 0),
                                atmospheric |-> atmospheric,
                                hydrostatic |-> hydrostatic]>>
                        ELSE smark
            /\ reads' = SeekReads(data, 0)
            /\ UNCHANGED <<data, atmospheric, hydrostatic, devtime, systime,
                           cached, divetime, maxdepth, mark, scans, loop>>

SamplesForeach == SamplesForeachCall({FALSE})

(***************************************************************************)
(* The loops of get_field and samples_foreach, one iteration per step.     *)
(* loop.pc is the loop the call is in, loop.offset the local `offset`, and *)
(* loop.units the number of units the unit loop has decoded.               *)
(***************************************************************************)
Running == {"seek", "samples", "scan"}

\* the call returns
Return(op, offset, units) ==
    loop' = [pc |-> "done", op |-> op, offset |-> offset, units |-> units]

\* samples_foreach is entered: unsigned int offset = 0 (line 241)
EnterForeach ==
    /\ loop.pc \notin Running
    /\ loop' = [pc |-> "seek", op |-> "samples_foreach", offset |-> 0, units |-> 0]
    /\ UNCHANGED <<data, atmospheric, hydrostatic, devtime, systime, cached,
                   divetime, maxdepth, last, mark, smark, reads, scans>>

\* one test of the outer loop of samples_foreach and what follows it up to
\* the next loop test (lines 242-250, 273-279)
SeekIteration ==
    /\ loop.pc = "seek"
    /\ IF ~Remaining(data, loop.offset)
       THEN Return(loop.op, loop.offset, loop.units)
       ELSE IF IsHeader(data, loop.offset)
            THEN IF HeaderTruncated(data, loop.offset)
                 THEN Return(loop.op, loop.offset, loop.units)
                 ELSE loop' = [loop EXCEPT !.pc = "samples",
                                           !.offset = loop.offset + SZ_HEADER]
            ELSE loop' = [loop EXCEPT !.offset = SeekStep(loop.offset)]
    /\ UNCHANGED <<data, atmospheric, hydrostatic, devtime, systime, cached,
                   divetime, maxdepth, last, mark, smark, reads, scans>>

\* get_field is entered: the length test of line 174, the cache test of line
\* 177 and unsigned int offset = 16 (line 188)
EnterField ==
    /\ loop.pc \notin Running
    /\ IF FieldTooShort(size) \/ ~ScanRequired(FIELD_TYPE_DIVETIME)
       THEN Return("get_field", 0, 0)
       ELSE loop' = [pc |-> "scan", op |-> "get_field", offset |-> SZ_HEADER,
                     units |-> 0]
    /\ UNCHANGED <<data, atmospheric, hydrostatic, devtime, systime, cached,
                   divetime, maxdepth, last, mark, smark, reads, scans>>

\* one test of a unit loop and, when it passes, one run of its body: lines
\* 189-200 of get_field and lines 251-272 of samples_foreach
UnitIteration ==
    /\ loop.pc \in {"samples", "scan"}
    /\ IF Remaining(data, loop.offset) /\ ~IsFooter(data, loop.offset)
       THEN loop' = [loop EXCEPT !.offset = loop.offset + 4,
                                 !.units = loop.units + 1]
       ELSE Return(loop.op, loop.offset, loop.units)
    /\ UNCHANGED <<data, atmospheric, hydrostatic, devtime, systime, cached,
                   divetime, maxdepth, last, mark, smark, reads, scans>>

(***************************************************************************)
(* Specifications.                                                         *)
(***************************************************************************)
\* the life cycle of one parser
Next ==
    \/ SetData(LifePool)
    \/ SetCalibration
    \/ GetDatetime
    \/ GetField({FALSE})
    \/ SamplesForeach

Spec == Init /\ [][Next]_vars

\* the life cycle, with one get_field call remembered for comparison
NextIdem ==
    \/ SetData(IdemPool)
    \/ SetCalibration
    \/ GetDatetime
    \/ GetField(BOOLEAN)
    \/ SamplesForeach

SpecIdem == Init /\ [][NextIdem]_vars

\* samples_foreach as a function of the buffer
NextSamples == SamplesForeach

SpecSamples == InitSamples /\ [][NextSamples]_vars

\* the aggregate scan as a function of the buffer
NextScan == GetField({FALSE}) \/ SetCalibration

SpecScan == InitScan /\ [][NextScan]_vars

\* the life cycle, with one samples_foreach call remembered for comparison
NextRestart ==
    \/ SetData(RestartPool)
    \/ SetCalibration
    \/ GetDatetime
    \/ GetField({FALSE})
    \/ SamplesForeachCall(BOOLEAN)

SpecRestart == Init /\ [][NextRestart]_vars

\* the loops of the two scanning operations, one iteration per step; a call
\* runs on the caller's thread until it returns, so a step that can be taken
\* is taken
NextSteps == EnterForeach \/ SeekIteration \/ EnterField \/ UnitIteration

SpecSteps == InitSteps /\ [][NextSteps]_vars /\ WF_vars(NextSteps)

\* the two scanning operations on buffers that begin with a record
NextAgree == SamplesForeachCall(BOOLEAN) \/ GetField({FALSE})

SpecAgree == InitAgree /\ [][NextAgree]_vars

\* the three reading operations on buffers of every length
NextReads == GetDatetime \/ GetField({FALSE}) \/ SamplesForeach

SpecReads == InitReads /\ [][NextReads]_vars

\* get_datetime as a function of the buffer and the clock pair
NextClock == GetDatetime \/ SetData(ClockPool)

SpecClock == InitClock /\ [][NextClock]_vars

(***************************************************************************)
(* The documented behaviour, stated without the loops of the code.         *)
(***************************************************************************)
\* the 4-byte unit of d at offset o
Unit(d, o) == SubSeq(d, o + 1, o + 4)

\* the offsets start, start + 4, ... of the whole units of d
UnitOffsets(d, start) ==
    {o \in start..Len(d) : (o - start) % 4 = 0 /\ o + 4 <= Len(d)}

\* the units visited from start on: those before the first footer unit
Visited(d, start) ==
    {o \in UnitOffsets(d, start) :
        \A o2 \in UnitOffsets(d, start) : o2 <= o => Unit(d, o2) # WF}

\* the depth field of the unit at o
DepthOf(d, o) == array_uint16_le(d, o + 2)

\* the visited units of the aggregate scan that reach the threshold
Qualifying(d) ==
    {o \in Visited(d, SZ_HEADER) : DepthOf(d, o) >= array_uint16_le(d, 10)}

\* the largest depth among the qualifying units, 0 when there is none
MaxQualifyingDepth(d) ==
    IF Qualifying(d) = {} THEN 0
    ELSE CHOOSE m \in {DepthOf(d, o) : o \in Qualifying(d)} :
             \A o \in Qualifying(d) : DepthOf(d, o) <= m

\* the offsets at which four consecutive zero bytes occur
ZeroRuns(d) ==
    {p \in 0..(Len(d) - 4) : \A k \in 1..4 : d[p + k] = 0}

\* the smallest of them
FirstZeroRun(d) == CHOOSE p \in ZeroRuns(d) : \A q \in ZeroRuns(d) : p <= q

Supported == {FIELD_TYPE_DIVETIME, FIELD_TYPE_MAXDEPTH, FIELD_TYPE_GASMIX_COUNT}

(***************************************************************************)
(* C1                                                                      *)
(***************************************************************************)
\* C1: whenever the aggregate cache is valid, the cached dive time and raw
\* maximum depth are those of a full scan of the installed buffer; the cache
\* is invalid right after every set_data; and a successful get_field of
\* DIVE_TIME or MAX_DEPTH returns the statistics of the installed buffer.
C1_CacheReflectsBuffer ==
    /\ cached = 1 => size >= SZ_FIELD /\ Cache = Scan(data)
    /\ last.op = "set_data" => cached = 0
    /\ (last.op = "get_field" /\ last.hasvalue /\ last.status = DC_STATUS_SUCCESS) =>
          /\ size >= SZ_FIELD
          /\ last.type = FIELD_TYPE_DIVETIME =>
                 last.value = <<"uint", Scan(data).divetime>>
          /\ last.type = FIELD_TYPE_MAXDEPTH =>
                 last.value = DepthValue(Scan(data).maxdepth, atmospheric, hydrostatic)

\* a set_data that replaced a buffer whose statistics were cached by one with
\* other statistics
C1_Witness ==
    /\ last.op = "set_data"
    /\ last.pre.cached = 1
    /\ size >= SZ_FIELD
    /\ Scan(data).divetime # last.pre.divetime
    /\ Scan(data).maxdepth # last.pre.maxdepth
    /\ cached = 0

(***************************************************************************)
(* C2                                                                      *)
(***************************************************************************)
\* the last operation is a get_field call with the arguments of the
\* remembered one, and no set_data came between the two
SameCallAsMarked ==
    /\ mark # <<>>
    /\ last.op = "get_field"
    /\ last.type = mark[1].type
    /\ last.hasvalue = mark[1].hasvalue

\* C2 as stated: two get_field calls with the same arguments and no set_data
\* between them return the same status and the same value, whatever happens
\* between them.
C2_Original ==
    SameCallAsMarked =>
        /\ last.status = mark[1].status
        /\ last.value = mark[1].value

\* C2, amended: they return the same status, and the same value when the
\* calibration is the same at both calls; DIVE_TIME and GASMIX_COUNT return
\* the same value whatever the calibration.
C2_SameResultUnderSameCalibration ==
    SameCallAsMarked =>
        /\ last.status = mark[1].status
        /\ (atmospheric = mark[1].atmospheric /\ hydrostatic = mark[1].hydrostatic)
               => last.value = mark[1].value
        /\ last.type # FIELD_TYPE_MAXDEPTH => last.value = mark[1].value

\* a DIVE_TIME query served from the cache, after the calibration was changed
\* since the remembered query
C2_Witness ==
    /\ SameCallAsMarked
    /\ last.type = FIELD_TYPE_DIVETIME
    /\ last.hasvalue
    /\ last.pre.cached = 1
    /\ last.value # <<"uint", 0>>
    /\ atmospheric # mark[1].atmospheric

(***************************************************************************)
(* C3                                                                      *)
(***************************************************************************)
\* C3: on a buffer of at least 20 bytes, get_field (DIVE_TIME) returns the
\* number of visited units whose depth is >= the threshold, times the
\* interval, and MAX_DEPTH is converted from the largest depth among those
\* units (0 when there is none), which is what the cache holds.
C3_ThresholdFiltering ==
    (last.op = "get_field" /\ size >= SZ_FIELD) =>
        /\ divetime = Cardinality(Qualifying(data)) * array_uint16_le(data, 8)
        /\ maxdepth = MaxQualifyingDepth(data)
        /\ (last.hasvalue /\ last.type = FIELD_TYPE_DIVETIME) =>
               /\ last.status = DC_STATUS_SUCCESS
               /\ last.value = <<"uint", Cardinality(Qualifying(data))
                                          * array_uint16_le(data, 8)>>
        /\ (last.hasvalue /\ last.type = FIELD_TYPE_MAXDEPTH) =>
               /\ last.status = DC_STATUS_SUCCESS
               /\ last.value = DepthValue(MaxQualifyingDepth(data),
                                          atmospheric, hydrostatic)

\* a DIVE_TIME query on a buffer with a unit below the threshold, a unit
\* equal to it, and a unit after the footer
C3_Witness ==
    /\ last.op = "get_field"
    /\ last.type = FIELD_TYPE_DIVETIME
    /\ last.hasvalue
    /\ size >= SZ_FIELD
    /\ \E o \in Visited(data, SZ_HEADER) : DepthOf(data, o) < array_uint16_le(data, 10)
    /\ \E o \in Visited(data, SZ_HEADER) : DepthOf(data, o) = array_uint16_le(data, 10)
    /\ Visited(data, SZ_HEADER) # UnitOffsets(data, SZ_HEADER)
    /\ last.value # <<"uint", 0>>

(***************************************************************************)
(* C4                                                                      *)
(***************************************************************************)
\* C4: get_datetime on a buffer shorter than 8 bytes, and get_field of
\* DIVE_TIME or MAX_DEPTH on a buffer shorter than 20 bytes, return
\* DataFormat and write nothing, whatever came before.
C4_ShortBufferRejected ==
    /\ (last.op = "get_datetime" /\ size < 8) =>
           /\ last.status = DC_STATUS_DATAFORMAT
           /\ last.ticks = <<>>
    /\ (last.op = "get_field" /\ size < 20
          /\ last.type \in {FIELD_TYPE_DIVETIME, FIELD_TYPE_MAXDEPTH}) =>
           /\ last.status = DC_STATUS_DATAFORMAT
           /\ last.value = <<>>

\* a MAX_DEPTH query with an output on a buffer of 19 bytes
C4_Witness ==
    /\ last.op = "get_field"
    /\ last.type = FIELD_TYPE_MAXDEPTH
    /\ last.hasvalue
    /\ size = 19

(***************************************************************************)
(* C5                                                                      *)
(***************************************************************************)
\* the callbacks of the last samples_foreach form triples TIME, TEMPERATURE,
\* DEPTH, and the TIME of the k-th triple is k * interval
TriplesInOrder(cbs, interval) ==
    /\ Len(cbs) % 3 = 0
    /\ \A k \in 1..(Len(cbs) \div 3) :
           /\ cbs[3 * k - 2][1] = SAMPLE_TYPE_TIME
           /\ cbs[3 * k - 1][1] = SAMPLE_TYPE_TEMPERATURE
           /\ cbs[3 * k][1] = SAMPLE_TYPE_DEPTH
           /\ cbs[3 * k - 2][2] = k * interval

\* the TIME of every triple after the first is the TIME before it plus interval
StepsByInterval(cbs, interval) ==
    \A k \in 2..(Len(cbs) \div 3) : cbs[3 * k - 2][2] = cbs[3 * k - 5][2] + interval

\* the TIME of every triple after the first is larger than the TIME before it
StrictlyIncreasing(cbs) ==
    \A k \in 2..(Len(cbs) \div 3) : cbs[3 * k - 2][2] > cbs[3 * k - 5][2]

\* the interval of the record samples_foreach decodes
RecordInterval(d) == array_uint16_le(d, FirstZeroRun(d) + 8)

\* C5 as stated: for every interval, 0 included, the callbacks are triples in
\* the order TIME, TEMPERATURE, DEPTH, the k-th TIME is k * interval, and TIME
\* strictly increases by exactly interval from each sample to the next.
C5_Original ==
    (last.op = "samples_foreach" /\ last.cbs # <<>>) =>
        /\ TriplesInOrder(last.cbs, RecordInterval(data))
        /\ StepsByInterval(last.cbs, RecordInterval(data))
        /\ StrictlyIncreasing(last.cbs)

\* C5, amended: as stated, except that TIME strictly increases only when the
\* interval is not 0; with interval 0 every TIME is 0.
C5_TriplesAndTime ==
    (last.op = "samples_foreach" /\ last.cbs # <<>>) =>
        /\ TriplesInOrder(last.cbs, RecordInterval(data))
        /\ StepsByInterval(last.cbs, RecordInterval(data))
        /\ RecordInterval(data) > 0 => StrictlyIncreasing(last.cbs)
        /\ RecordInterval(data) = 0 =>
               \A k \in 1..(Len(last.cbs) \div 3) : last.cbs[3 * k - 2][2] = 0

\* a call that emitted at least two samples of a record with interval > 1
C5_Witness ==
    /\ last.op = "samples_foreach"
    /\ Len(last.cbs) >= 6
    /\ RecordInterval(data) > 1

(***************************************************************************)
(* C6                                                                      *)
(***************************************************************************)
\* C6: samples_foreach on a buffer of any length without four consecutive
\* zero bytes makes no callback and returns Success.
C6_NoSentinelNoCallback ==
    (last.op = "samples_foreach" /\ ZeroRuns(data) = {}) =>
        /\ last.status = DC_STATUS_SUCCESS
        /\ last.cbs = <<>>

\* a call with a callback on a buffer of 20 bytes or more that has three
\* consecutive zero bytes but not four
C6_Witness ==
    /\ last.op = "samples_foreach"
    /\ last.hasvalue
    /\ ZeroRuns(data) = {}
    /\ size >= 20
    /\ \E p \in 0..(size - 3) : \A k \in 1..3 : data[p + k] = 0

(***************************************************************************)
(* C7                                                                      *)
(***************************************************************************)
\* host - (device - field) over the integers: no subtraction wraps
RebasedTicks(host, device, field) == I64Sub(host, I64Sub(device, field))

\* C7: for every buffer of at least 8 bytes the tick value handed to the
\* calendar conversion is host_reference_ticks - (device_reference_ticks -
\* device_timestamp_field) as an integer expression, for timestamp fields
\* below and above device_reference_ticks.
C7_Original ==
    (last.op = "get_datetime" /\ size >= 8) =>
        last.ticks = RebasedTicks(systime, devtime, array_uint32_le(data, 4))

(***************************************************************************)
(* C8                                                                      *)
(***************************************************************************)
\* C8: on a buffer of at least 20 bytes get_field with a field kind other
\* than DIVE_TIME, MAX_DEPTH and GASMIX_COUNT returns Unsupported, never
\* Success, and writes no value.
C8_Original ==
    (last.op = "get_field" /\ size >= 20 /\ last.type \notin Supported) =>
        /\ last.status = DC_STATUS_UNSUPPORTED
        /\ last.value = <<>>

(***************************************************************************)
(* C9                                                                      *)
(***************************************************************************)
\* the last operation is a GASMIX_COUNT query on a buffer of 20 bytes or more
GasmixCountQuery ==
    /\ last.op = "get_field"
    /\ last.type = FIELD_TYPE_GASMIX_COUNT
    /\ size >= 20

\* C9 as stated: GASMIX_COUNT yields 0, and a query issued while the cache is
\* invalid leaves the valid flag and the cached fields as they were.
C9_Original ==
    GasmixCountQuery =>
        /\ last.status = DC_STATUS_SUCCESS
        /\ last.hasvalue => last.value = <<"uint", 0>>
        /\ last.pre.cached = 0 => Cache = last.pre

\* C9, amended: GASMIX_COUNT yields 0 whatever the buffer holds; a query
\* issued while the cache is invalid runs the aggregate scan like any other
\* query, so that afterwards the cache is valid and holds the statistics of
\* the installed buffer; a query issued while the cache is valid leaves it
\* as it was.
C9_GasmixCountScans ==
    GasmixCountQuery =>
        /\ last.status = DC_STATUS_SUCCESS
        /\ last.hasvalue => last.value = <<"uint", 0>>
        /\ last.pre.cached = 0 =>
               /\ cached = 1
               /\ divetime = Cardinality(Qualifying(data)) * array_uint16_le(data, 8)
               /\ maxdepth = MaxQualifyingDepth(data)
        /\ last.pre.cached = 1 => Cache = last.pre

\* a GASMIX_COUNT query with an output, issued while the cache was invalid,
\* on a buffer whose dive time is not 0
C9_Witness ==
    /\ GasmixCountQuery
    /\ last.hasvalue
    /\ last.pre.cached = 0
    /\ divetime # 0

(***************************************************************************)
(* C10                                                                     *)
(***************************************************************************)
\* the callbacks that decode the units of d at the offsets of the sequence os
RECURSIVE EventsOf(_, _, _, _)
EventsOf(d, os, k, interval) ==
    IF k > Len(os) THEN <<>>
    ELSE << <<SAMPLE_TYPE_TIME, k * interval>>,
            <<SAMPLE_TYPE_TEMPERATURE, TemperatureValue(array_uint16_le(d, os[k]))>>,
            <<SAMPLE_TYPE_DEPTH, DepthValue(DepthOf(d, os[k]), atmospheric, hydrostatic)>> >>
         \o EventsOf(d, os, k + 1, interval)

\* the offsets of a set of units, in increasing order
RECURSIVE Ascending(_)
Ascending(S) ==
    IF S = {} THEN <<>>
    ELSE LET m == CHOOSE x \in S : \A y \in S : x <= y
         IN  <<m>> \o Ascending(S \ {m})

\* C10: when the first run of four zero bytes is at p (aligned or not) and
\* p + 16 <= size, a samples_foreach with a callback returns Success and its
\* callbacks are exactly those of the units at p + 16, p + 20, ... before
\* the first footer unit or the end of the buffer, and nothing after them,
\* whatever follows in the buffer; without a callback nothing is emitted.
C10_FirstRecordOnly ==
    (last.op = "samples_foreach" /\ ZeroRuns(data) # {}
       /\ FirstZeroRun(data) + SZ_HEADER <= size) =>
        LET p == FirstZeroRun(data)
        IN  /\ last.status = DC_STATUS_SUCCESS
            /\ last.hasvalue =>
                   last.cbs = EventsOf(data, Ascending(Visited(data, p + SZ_HEADER)),
                                       1, array_uint16_le(data, p + 8))
            /\ ~last.hasvalue => last.cbs = <<>>

\* a call with a callback on a record that has a sample, ends with a footer
\* and is followed by another zero sentinel
C10_Witness ==
    /\ last.op = "samples_foreach"
    /\ last.hasvalue
    /\ ZeroRuns(data) # {}
    /\ FirstZeroRun(data) + SZ_HEADER <= size
    /\ LET start == FirstZeroRun(data) + SZ_HEADER
           n     == Cardinality(Visited(data, start))
       IN  /\ n >= 1
           /\ start + 4 * n + 4 <= size
           /\ Unit(data, start + 4 * n) = WF
           /\ \E q \in ZeroRuns(data) : q >= start + 4 * n + 4
    /\ Len(last.cbs) >= 3

(***************************************************************************)
(* C11                                                                     *)
(***************************************************************************)
\* C11: when the first run of four zero bytes is at an offset p with
\* p + 16 > size, samples_foreach returns DataFormat and makes no callback.
C11_TruncatedHeaderRejected ==
    (last.op = "samples_foreach" /\ ZeroRuns(data) # {}
       /\ FirstZeroRun(data) + 16 > size) =>
        /\ last.status = DC_STATUS_DATAFORMAT
        /\ last.cbs = <<>>

\* a call with a callback on a buffer whose first zero run starts at an
\* unaligned offset and leaves 12 to 15 bytes, the interval included
C11_Witness ==
    /\ last.op = "samples_foreach"
    /\ last.hasvalue
    /\ ZeroRuns(data) # {}
    /\ FirstZeroRun(data) % 4 # 0
    /\ FirstZeroRun(data) + 12 <= size
    /\ FirstZeroRun(data) + 16 > size

(***************************************************************************)
(* C12                                                                     *)
(***************************************************************************)
\* C12: in every step the calibration pair changes only when the step is a
\* set_calibration (set_data, get_datetime, get_field and samples_foreach
\* leave it as it is), and the clock pair (devtime, systime) never changes.
C12_ConfigurationFrame ==
    [][/\ (atmospheric' # atmospheric \/ hydrostatic' # hydrostatic)
              => last'.op = "set_calibration"
       /\ devtime' = devtime
       /\ systime' = systime]_vars

\* a set_data that replaced a buffer with cached statistics while a
\* calibration other than the default was in force
C12_Witness ==
    /\ last.op = "set_data"
    /\ last.pre.cached = 1
    /\ atmospheric # ATM
    /\ hydrostatic # DefaultHydrostatic
    /\ devtime = T1000
    /\ systime = <<0, 50000>>

(***************************************************************************)
(* C13                                                                     *)
(***************************************************************************)
\* C13: between two set_data calls the scan loop of get_field runs at most
\* once, whatever field kinds are queried; once it has run the cache is
\* valid, and a get_field that finds the cache valid reads nothing from the
\* buffer and leaves the cache as it is.
C13_ScanAtMostOnce ==
    /\ scans <= 1
    /\ scans = 1 => cached = 1
    /\ (last.op = "get_field" /\ last.pre.cached = 1) =>
           /\ reads = {}
           /\ Cache = last.pre

\* a MAX_DEPTH query served from a cache that an earlier query filled
C13_Witness ==
    /\ last.op = "get_field"
    /\ last.type = FIELD_TYPE_MAXDEPTH
    /\ last.hasvalue
    /\ last.pre.cached = 1
    /\ last.pre.maxdepth # 0
    /\ scans = 1

(***************************************************************************)
(* C14                                                                     *)
(***************************************************************************)
\* the cache holds the statistics of the whole sample region of the buffer
HoldsFullScan ==
    /\ cached = 1
    /\ divetime = Cardinality(Qualifying(data)) * array_uint16_le(data, 8)
    /\ maxdepth = MaxQualifyingDepth(data)

\* C14 as stated: whenever get_field returns an error the cache is not valid
\* after the call, and the cached dive time and maximum depth are untouched.
C14_Original ==
    (last.op = "get_field" /\ last.status # DC_STATUS_SUCCESS) =>
        /\ cached = 0
        /\ divetime = last.pre.divetime
        /\ maxdepth = last.pre.maxdepth

\* C14, amended: the cache is never partially filled: it is either invalid
\* with both fields 0 or valid with the statistics of the whole sample
\* region.  A get_field that returns DataFormat leaves the cache invalid and
\* untouched; a get_field that returns Unsupported has run the scan first,
\* or found the cache valid, so that the cache is valid after it.
C14_NoPartialResults ==
    /\ cached = 0 => divetime = 0 /\ maxdepth = 0
    /\ cached = 1 => size >= SZ_FIELD /\ HoldsFullScan
    /\ (last.op = "get_field" /\ last.status = DC_STATUS_DATAFORMAT) =>
           /\ size < SZ_FIELD
           /\ cached = 0
           /\ Cache = last.pre
    /\ (last.op = "get_field" /\ last.status = DC_STATUS_UNSUPPORTED) =>
           /\ size >= SZ_FIELD
           /\ HoldsFullScan

\* a query of an unsupported kind that found the cache invalid, on a buffer
\* with more than one unit and a dive time that is not 0
C14_Witness ==
    /\ last.op = "get_field"
    /\ last.status = DC_STATUS_UNSUPPORTED
    /\ last.pre.cached = 0
    /\ Cardinality(Visited(data, SZ_HEADER)) >= 2
    /\ divetime # 0

(***************************************************************************)
(* C15                                                                     *)
(***************************************************************************)
\* the bytes of the whole 4-byte units of the buffer from `start` on
WholeUnitBytes(start) ==
    {i \in start..(size - 1) : start + 4 * ((i - start) \div 4) + 4 <= size}

\* C15: every byte offset that get_datetime, get_field and samples_foreach
\* read is below size, for every buffer length from 0 on.  get_datetime on
\* fewer than 8 bytes and get_field on fewer than 20 bytes return DataFormat
\* and read nothing; get_field reads the interval and threshold and whole
\* units from 16 on only; samples_foreach on fewer than 4 bytes returns
\* Success and reads nothing; samples_foreach that finds the zero run at p
\* with p + 16 > size returns DataFormat and has read nothing but the bytes
\* its header comparisons looked at, none of them beyond p + 3.
C15_ReadsInBounds ==
    /\ reads \subseteq 0..(size - 1)
    /\ (last.op = "get_datetime" /\ size < 8) =>
           /\ last.status = DC_STATUS_DATAFORMAT
           /\ reads = {}
    /\ (last.op = "get_datetime" /\ size >= 8) => reads = 4..7
    /\ (last.op = "get_field" /\ size < 20) =>
           /\ last.status = DC_STATUS_DATAFORMAT
           /\ reads = {}
    /\ (last.op = "get_field" /\ size >= 20) =>
           reads \subseteq (8..11) \cup WholeUnitBytes(SZ_HEADER)
    /\ (last.op = "samples_foreach" /\ size < 4) =>
           /\ last.status = DC_STATUS_SUCCESS
           /\ reads = {}
    /\ (last.op = "samples_foreach" /\ size >= 4 /\ ZeroRuns(data) = {}) =>
           /\ last.status = DC_STATUS_SUCCESS
           /\ reads = 0..(size - 1)
    /\ (last.op = "samples_foreach" /\ ZeroRuns(data) # {}
          /\ FirstZeroRun(data) + 16 > size) =>
           /\ last.status = DC_STATUS_DATAFORMAT
           /\ reads = 0..(FirstZeroRun(data) + 3)
    /\ (last.op = "samples_foreach" /\ ZeroRuns(data) # {}
          /\ FirstZeroRun(data) + 16 <= size) =>
           LET p == FirstZeroRun(data)
           IN  reads \subseteq (0..(p + 3)) \cup {p + 8, p + 9}
                                \cup {i \in (p + 16)..(size - 1) :
                                         p + 16 + 4 * ((i - p - 16) \div 4) + 4 <= size}

\* a samples_foreach that read bytes, found a truncated header and stopped,
\* on a buffer with an odd number of bytes
C15_Witness ==
    /\ last.op = "samples_foreach"
    /\ ZeroRuns(data) # {}
    /\ FirstZeroRun(data) + 16 > size
    /\ FirstZeroRun(data) + 8 < size
    /\ size % 4 # 0
    /\ reads # {}
    /\ last.status = DC_STATUS_DATAFORMAT

(***************************************************************************)
(* C16                                                                     *)
(***************************************************************************)
\* the last operation is a samples_foreach call with the callback argument of
\* the remembered one, and no set_data came between the two
SameForeachAsMarked ==
    /\ smark # <<>>
    /\ last.op = "samples_foreach"
    /\ last.hasvalue = smark[1].callback

\* C16: samples_foreach leaves the valid flag, the dive time and the maximum
\* depth of the cache as they were, whether it returns Success or DataFormat;
\* two samples_foreach calls on the same installed buffer return the same
\* status, and under the same calibration the same callback sequence,
\* whatever get_field and get_datetime calls come between them.
C16_ForeachRestartable ==
    /\ last.op = "samples_foreach" => Cache = last.pre
    /\ SameForeachAsMarked =>
           /\ last.status = smark[1].status
           /\ (atmospheric = smark[1].atmospheric
                 /\ hydrostatic = smark[1].hydrostatic) => last.cbs = smark[1].cbs

\* a second samples_foreach with a callback, under the calibration of the
\* remembered one, after a get_field has filled the cache in between, on a
\* record with several samples
C16_Witness ==
    /\ SameForeachAsMarked
    /\ last.hasvalue
    /\ smark[1].pre.cached = 0
    /\ last.pre.cached = 1
    /\ last.pre.divetime # 0
    /\ atmospheric = smark[1].atmospheric
    /\ hydrostatic = smark[1].hydrostatic
    /\ Len(last.cbs) >= 6

\* a samples_foreach that failed on a cut-off header, twice
C16_WitnessFailed ==
    /\ SameForeachAsMarked
    /\ last.status = DC_STATUS_DATAFORMAT

(***************************************************************************)
(* C17                                                                     *)
(***************************************************************************)
\* the largest number of whole units after a 16 byte header
UnitLimit == IF size >= SZ_HEADER THEN (size - SZ_HEADER) \div 4 ELSE 0

\* every iteration moves the offset forward: by 1 in the header search, by 16
\* over the header, by 4 per unit
OffsetAdvances ==
    (loop.pc \in Running /\ loop'.pc \in Running) =>
        /\ loop'.offset > loop.offset
        /\ (loop.pc = "seek" /\ loop'.pc = "seek") => loop'.offset = loop.offset + 1
        /\ (loop.pc = "seek" /\ loop'.pc = "samples") => loop'.offset = loop.offset + 16
        /\ loop.pc \in {"samples", "scan"} => loop'.offset = loop.offset + 4

\* the offset stays inside the buffer and the units decoded are at most
\* (size - 16) / 4; a returned call has decoded the samples that
\* samples_foreach emits, or the units that the scan of get_field visits
LoopBounded ==
    /\ loop.offset <= size \/ loop.pc \notin Running
    /\ loop.units <= UnitLimit
    /\ (loop.pc = "done" /\ loop.op = "samples_foreach") =>
           3 * loop.units = Len(SeekHeader(data, 0).cbs)
    /\ (loop.pc = "done" /\ loop.op = "get_field" /\ size >= SZ_FIELD) =>
           loop.units = Cardinality(Visited(data, SZ_HEADER))

\* C17: the header search and sample loop of samples_foreach and the scan of
\* get_field terminate on every buffer: the offset strictly increases at
\* every loop step (by 1, by 16 over the header, by 4 per unit), at most
\* (size - 16) / 4 units are decoded, and a call that has entered a loop
\* returns.
C17_ScansTerminate ==
    /\ [][OffsetAdvances]_vars
    /\ []LoopBounded
    /\ [](loop.pc \in Running => <>(loop.pc = "done"))

\* a samples_foreach that has returned after a header search of at least one
\* step and a sample loop of at least one unit
C17_Witness ==
    /\ loop.pc = "done"
    /\ loop.op = "samples_foreach"
    /\ loop.units >= 1
    /\ ZeroRuns(data) # {}
    /\ FirstZeroRun(data) > 0

\* a get_field scan that has returned after one unit, in front of the last
\* bytes of the buffer, which do not make a unit
C17_WitnessScan ==
    /\ loop.pc = "done"
    /\ loop.op = "get_field"
    /\ loop.units = 1
    /\ loop.offset < size

(***************************************************************************)
(* C18                                                                     *)
(***************************************************************************)
\* the last operation is a query with an output that found the cache valid
ServedFromCache(type) ==
    /\ last.op = "get_field"
    /\ last.type = type
    /\ last.hasvalue
    /\ last.pre.cached = 1

\* C18: the cache holds the raw maximum depth of the buffer, whatever the
\* calibration; set_calibration leaves the cache as it is; a MAX_DEPTH query
\* that finds the cache valid reads nothing from the buffer, leaves the
\* cache as it is and returns (maxdepth * BAR / 1000 - atmospheric) /
\* hydrostatic for the cached raw depth and the calibration in force at the
\* query; a DIVE_TIME query that finds the cache valid returns the cached
\* dive time, the same as before any set_calibration.
C18_RawDepthConvertedAtQuery ==
    /\ cached = 1 => maxdepth = MaxQualifyingDepth(data)
    /\ last.op = "set_calibration" => Cache = last.pre
    /\ ServedFromCache(FIELD_TYPE_MAXDEPTH) =>
           /\ last.status = DC_STATUS_SUCCESS
           /\ last.value = DepthValue(last.pre.maxdepth, atmospheric, hydrostatic)
           /\ Cache = last.pre
           /\ reads = {}
    /\ ServedFromCache(FIELD_TYPE_DIVETIME) =>
           /\ last.status = DC_STATUS_SUCCESS
           /\ last.value = <<"uint", last.pre.divetime>>
           /\ Cache = last.pre
           /\ reads = {}
           /\ SameCallAsMarked => last.value = mark[1].value

\* a MAX_DEPTH query served from the cache under a calibration other than
\* that of the remembered MAX_DEPTH query, with another value
C18_Witness ==
    /\ ServedFromCache(FIELD_TYPE_MAXDEPTH)
    /\ SameCallAsMarked
    /\ last.pre.maxdepth # 0
    /\ (atmospheric # mark[1].atmospheric \/ hydrostatic # mark[1].hydrostatic)
    /\ last.value # mark[1].value
    /\ scans = 1

(***************************************************************************)
(* C19                                                                     *)
(***************************************************************************)
\* the buffer has 20 bytes or more and begins with four zero bytes, a
\* samples_foreach with a callback is remembered, and the cache is valid
BothPathsRan ==
    /\ size >= 20
    /\ \A k \in 1..4 : data[k] = 0
    /\ smark # <<>>
    /\ smark[1].callback
    /\ cached = 1

\* the offset of the unit behind the k-th emitted triple
EmittedOffset(k) == SZ_HEADER + 4 * (k - 1)

\* the emitted samples whose raw depth reaches the header threshold
EmittedQualifying(n) ==
    {k \in 1..n : DepthOf(data, EmittedOffset(k)) >= array_uint16_le(data, 10)}

\* the largest raw depth among them, 0 when there is none
MaxEmittedDepth(n) ==
    IF EmittedQualifying(n) = {} THEN 0
    ELSE CHOOSE m \in {DepthOf(data, EmittedOffset(k)) : k \in EmittedQualifying(n)} :
             \A k \in EmittedQualifying(n) : DepthOf(data, EmittedOffset(k)) <= m

\* C19: on a buffer of 20 bytes or more that begins with four zero bytes,
\* samples_foreach emits one triple per unit at 16, 20, ... with the interval
\* read at offset 8, the scan of get_field reads the same units, the cached
\* dive time is the interval times the number of emitted DEPTH samples whose
\* raw depth is >= the threshold, and the cached raw maximum depth is the
\* largest such raw depth, 0 when there is none.
C19_ScanPathsAgree ==
    BothPathsRan =>
        LET cbs      == smark[1].cbs
            n        == Len(cbs) \div 3
            interval == array_uint16_le(data, 8)
        IN  /\ smark[1].status = DC_STATUS_SUCCESS
            /\ Len(cbs) = 3 * n
            /\ \A k \in 1..n :
                   /\ cbs[3 * k - 2] = <<SAMPLE_TYPE_TIME, k * interval>>
                   /\ cbs[3 * k] =
                          <<SAMPLE_TYPE_DEPTH,
                            DepthValue(DepthOf(data, EmittedOffset(k)),
                                       smark[1].atmospheric, smark[1].hydrostatic)>>
            /\ (last.op = "get_field" /\ last.pre.cached = 0) =>
                   {i \in reads : i >= SZ_HEADER}
                       = {i \in smark[1].reads : i >= SZ_HEADER}
            /\ divetime = interval * Cardinality(EmittedQualifying(n))
            /\ maxdepth = MaxEmittedDepth(n)
            /\ (last.op = "get_field" /\ last.hasvalue
                  /\ last.type = FIELD_TYPE_DIVETIME) =>
                   last.value = <<"uint", interval * Cardinality(EmittedQualifying(n))>>

\* a DIVE_TIME query that ran the scan after a samples_foreach that emitted
\* two samples or more, some below the threshold and some not, and stopped
\* at a footer in front of the end of the buffer
C19_Witness ==
    /\ BothPathsRan
    /\ last.op = "get_field"
    /\ last.type = FIELD_TYPE_DIVETIME
    /\ last.hasvalue
    /\ last.pre.cached = 0
    /\ Len(smark[1].cbs) >= 6
    /\ EmittedQualifying(Len(smark[1].cbs) \div 3) # {}
    /\ EmittedQualifying(Len(smark[1].cbs) \div 3) # 1..(Len(smark[1].cbs) \div 3)
    /\ SZ_HEADER + 4 * (Len(smark[1].cbs) \div 3) + 4 <= size

====
